---- MODULE Spec2Model ----
(***************************************************************************)
(* A model of the reactive engine of bup.js (src/src/reactivity.ts):       *)
(* signals, effects, the tracking context, ignore and scope, computed      *)
(* values and the microtask scheduler, with resource() and the             *)
(* $keyedChildren binding of dom.ts as users of the engine.                *)
(* Signals and effects are objects of the heap; an                         *)
(* effect body is user code, given here as a small program over the        *)
(* engine's operations.  One action is one call made by the host program   *)
(* (a write, effect(), computed(), a disposer) or one iteration of the     *)
(* loop of flush().                                                        *)
(***************************************************************************)
EXTENDS Integers, Sequences, FiniteSets, TLC

\* ------------------------------------------------------------------ bounds
MaxEffects == 3
MaxHostEffects == 2
MaxVal == 2
MaxCleanupCalls == 2

\* ------------------------------------------------------------ the universe
NoEffect == 0
Undefined == -1
Effects == 1..MaxEffects
\* "a" and "b" are signals made by signal(0); "c" is the signal inside computed()
Sigs == {"a", "b", "c"}
PlainSigs == {"a", "b"}

\* ------------------------------------------------- JavaScript Set and Array
\* A JavaScript Set iterates in insertion order: a sequence without repeats.
Range(seq) == {seq[k] : k \in 1..Len(seq)}
SetAdd(seq, x) == IF x \in Range(seq) THEN seq ELSE Append(seq, x)
SetDelete(seq, x) == SelectSeq(seq, LAMBDA y : y # x)
Count(seq, x) == Cardinality({k \in 1..Len(seq) : seq[k] = x})
Max(m, n) == IF m >= n THEN m ELSE n

\* ------------------------------------------------------- effect bodies (fn)
\* The instructions of a body; every instruction has the same fields.
Instr(op, s, v, f, p, q) == [op |-> op, s |-> s, v |-> v, f |-> f, p |-> p, q |-> q]
Rd(s) == Instr("read", s, 0, "", <<>>, <<>>)
WrAcc(s, f) == Instr("writeAcc", s, 0, f, <<>>, <<>>)
If(f, p, q) == Instr("if", "", 0, f, p, q)
Log == Instr("log", "", 0, "", <<>>, <<>>)
Throw == Instr("throw", "", 0, "", <<>>, <<>>)
Ignore(p) == Instr("ignore", "", 0, "", p, <<>>)
Scope(p) == Instr("scope", "", 0, "", p, <<>>)
Mk(fn) == Instr("effect", "", 0, fn, <<>>, <<>>)
\* setLoading(true); setError(undefined); fetcher().then(...).catch(...)
Fetch == Instr("fetch", "", 0, "", <<>>, <<>>)
\* The body of $keyedChildren's effect after it has read the array
Reconcile == Instr("reconcile", "", 0, "", <<>>, <<>>)
\* The body compares the computed value it read with the signal it read.
Compare == Instr("compare", "", 0, "", <<>>, <<>>)

\* The pure functions user code applies: updaters, derivations and tests.
Apply(f, x) ==
    CASE f = "inc" -> x + 1
      [] f = "id" -> x
      [] f = "pos" -> IF x > 0 THEN 1 ELSE 0
Test(f, x) ==
    CASE f = "pos" -> x > 0
      [] f = "lt" -> x < MaxVal

\* The bodies an effect can be built with.  ret: the body returns a cleanup.
Bodies ==
    [ logA    |-> [prog |-> <<Rd("a"), Log>>, ret |-> FALSE],
      cond    |-> [prog |-> <<Rd("a"), If("pos", <<Rd("b")>>, <<>>)>>, ret |-> TRUE],
      writer  |-> [prog |-> <<Rd("b"), WrAcc("a", "id")>>, ret |-> FALSE],
      selfInc |-> [prog |-> <<Rd("a"), If("lt", <<WrAcc("a", "inc")>>, <<>>)>>, ret |-> FALSE],
      thrower |-> [prog |-> <<Rd("b"), If("pos", <<Throw>>, <<>>)>>, ret |-> TRUE],
      derive  |-> [prog |-> <<Rd("a"), WrAcc("c", "pos")>>, ret |-> FALSE],
      logC    |-> [prog |-> <<Rd("c"), Log>>, ret |-> FALSE],
      both    |-> [prog |-> <<Rd("a"), Rd("c"), Compare>>, ret |-> FALSE],
      fetch   |-> [prog |-> <<Rd("a"), Fetch>>, ret |-> FALSE],
      keyed   |-> [prog |-> <<Rd("a"), Reconcile>>, ret |-> FALSE],
      untrack |-> [prog |-> <<Ignore(<<Rd("b"), If("pos", <<Throw>>, <<>>)>>), Rd("a")>>,
                   ret |-> FALSE],
      scoped  |-> [prog |-> <<Scope(<<Rd("b"), If("pos", <<Throw>>, <<>>)>>), Rd("a")>>,
                   ret |-> FALSE],
      inner   |-> [prog |-> <<Rd("b")>>, ret |-> FALSE],
      outer   |-> [prog |-> <<Mk("inner"), Rd("a")>>, ret |-> TRUE],
      outer2  |-> [prog |-> <<Mk("outer"), Rd("b")>>, ret |-> FALSE] ]
UserBodies == {"logA", "cond", "writer", "selfInc", "thrower"}
\* The bodies that read the computed value: they need computed() to have returned.
UsesComputed == {"logC", "both"}

\* ------------------------------------------------------------------- state
VARIABLES
    value,          \* Signal.value
    subs,           \* Signal.subs, in insertion order
    deps,           \* Effect.deps
    cleanups,       \* Effect.cleanups: the closures the latest run returned
    currentEffect,  \* the tracking context
    queue,          \* the scheduler's queue of run procedures (by effect)
    flushing,       \* the scheduler's flag
    microtask,      \* queueMicrotask(flush) is outstanding
    inFlush,        \* flush() is executing its loop
    i,              \* the loop index of flush()
    body,           \* the fn each effect was built with ("none": not built)
    handles,        \* the effects whose disposer the host program holds
    reads,          \* history: signals read by the latest run while tracked
    prevReads,      \* history: the same for the run before
    ran,            \* history: body executions per effect in the latest action
    owed,           \* history: effects notified by a write and not run since
    calls,          \* history: calls received by the closure of the latest run
    cleanupCalls,   \* history: the most calls any one cleanup closure received
    logged,         \* history: the value the latest run of a logging body saw
    disposed,       \* history: effects whose disposer has been called
    lastPass,       \* history: the jobs executed by the current or latest pass
    batch,          \* history: the queue when the current or latest pass began
    call,           \* history: the latest operation and its arguments
    scopeCleanups,  \* the private list of the scope() call whose dispose the host holds
    hostDispose,    \* the host holds the dispose callback of a scope() call
    lexReads,       \* history: signals a body's own latest run read outside ignore/scope
    peeked,         \* history: signals a body's own latest run read inside ignore/scope
    scopeSaw,       \* history: the tracking contexts scope() found at its check
    scopeDisposed,  \* history: the dispose callback of a scope() call has been called
    res,            \* resource(): its signals' values and the fetches it started
    keyed,          \* $keyedChildren: the binding's Map of cleanups, with its history
    hits,           \* history: the jobs schedule() found in the queue in the latest action
    glitch          \* history: where a body ran that found the computed out of date

vars == <<value, subs, deps, cleanups, currentEffect, queue, flushing, microtask,
          inFlush, i, body, handles, reads, prevReads, ran, owed, calls,
          cleanupCalls, logged, disposed, lastPass, batch, call, scopeCleanups,
          hostDispose, res, keyed, lexReads, peeked, scopeSaw, scopeDisposed, hits,
          glitch>>

\* The heap as one record, so that the engine's functions map heap to heap.
\* thrown: an exception is propagating; acc: the body's local value;
\* self: the effect whose body is executing; over: the model ran out of effects;
\* by: who called the operation, the host program or flush();
\* quiet: the instruction executing is inside the fn of ignore() or scope().
Heap ==
    [ value |-> value, subs |-> subs, deps |-> deps, cleanups |-> cleanups,
      currentEffect |-> currentEffect, queue |-> queue, flushing |-> flushing,
      microtask |-> microtask, body |-> body, handles |-> handles,
      reads |-> reads, prevReads |-> prevReads,
      ran |-> [e \in Effects |-> 0], owed |-> owed,
      calls |-> calls, cleanupCalls |-> cleanupCalls, logged |-> logged, disposed |-> disposed,
      scopeCleanups |-> scopeCleanups, hostDispose |-> hostDispose, res |-> res,
      keyed |-> keyed,
      lexReads |-> lexReads, peeked |-> peeked,
      scopeSaw |-> scopeSaw, scopeDisposed |-> scopeDisposed, hits |-> {},
      glitch |-> glitch, by |-> "host",
      thrown |-> FALSE, acc |-> 0, self |-> NoEffect, over |-> FALSE, quiet |-> FALSE ]

NumEffects(st) == Cardinality({e \in Effects : st.body[e] # "none"})

\* The engine's functions call each other through the bodies of effects.
RECURSIVE ExecProg(_, _), callBody(_, _), run(_, _), effect(_, _, _)

\* ------------------------------------------------------------ the scheduler
\* A scheduler that calls the job at once.
schedule_sync(st, job) == run(st, job)

\* A scheduler that pushes without looking for the job in the queue.
schedule_push(st, job) ==
    IF ~st.flushing
    THEN [st EXCEPT !.queue = Append(@, job), !.flushing = TRUE, !.microtask = TRUE]
    ELSE [st EXCEPT !.queue = Append(@, job)]

\* A scheduler that puts a new job at the front of the queue.
schedule_front(st, job) ==
    LET q == IF job \in Range(st.queue) THEN st.queue ELSE <<job>> \o st.queue
    IN  IF ~st.flushing
        THEN [st EXCEPT !.queue = q, !.flushing = TRUE, !.microtask = TRUE]
        ELSE [st EXCEPT !.queue = q]

schedule(st, job) ==
    LET q == IF job \in Range(st.queue) THEN st.queue ELSE Append(st.queue, job)
        h == IF job \in Range(st.queue) THEN st.hits \cup {job} ELSE st.hits
    IN  IF ~st.flushing
        THEN [st EXCEPT !.queue = q, !.hits = h, !.flushing = TRUE, !.microtask = TRUE]
        ELSE [st EXCEPT !.queue = q, !.hits = h]

\* A notification that calls each subscriber's run at once.
RECURSIVE scheduleAll_sync(_, _)
scheduleAll_sync(st, ss) ==
    IF ss = <<>> THEN st ELSE scheduleAll_sync(run(st, Head(ss)), Tail(ss))

\* signal.subs.forEach(sub => schedule(sub.run))
RECURSIVE scheduleAll(_, _)
scheduleAll(st, ss) ==
    IF ss = <<>> THEN st ELSE scheduleAll(schedule(st, Head(ss)), Tail(ss))

\* ------------------------------------------------------------------ signals
Lit(v) == [fn |-> "", v |-> v]
Fn(f) == [fn |-> f, v |-> 0]

\* The history of a read: made by the body of st.self, inside or outside ignore/scope.
noteRead(st, s) ==
    IF st.self = NoEffect THEN st
    ELSE IF st.quiet THEN [st EXCEPT !.peeked[st.self] = @ \cup {s}]
    ELSE [st EXCEPT !.lexReads[st.self] = @ \cup {s}]

getter(st, s) ==
    LET e == st.currentEffect
        t == IF e # NoEffect
             THEN [st EXCEPT !.subs[s] = SetAdd(@, e),
                             !.deps[e] = @ \cup {s},
                             !.reads[e] = @ \cup {s}]
             ELSE st
    IN  [noteRead(t, s) EXCEPT !.acc = st.value[s]]

\* A setter without the Object.is test.
setter_always(st, s, nextValue) ==
    LET newValue == IF nextValue.fn # ""
                    THEN Apply(nextValue.fn, st.value[s])
                    ELSE nextValue.v
    IN  scheduleAll([st EXCEPT !.value[s] = newValue,
                               !.owed = @ \cup Range(st.subs[s])],
                    st.subs[s])

\* A setter without the typeof test: an updater is stored as no value at all.
setter_literal(st, s, nextValue) ==
    IF st.value[s] # nextValue.v
    THEN scheduleAll([st EXCEPT !.value[s] = nextValue.v,
                                !.owed = @ \cup Range(st.subs[s])],
                     st.subs[s])
    ELSE st

\* A setter that notifies the subscribers whether or not the value differs.
setter_notify(st, s, nextValue) ==
    LET newValue == IF nextValue.fn # ""
                    THEN Apply(nextValue.fn, st.value[s])
                    ELSE nextValue.v
    IN  scheduleAll([st EXCEPT !.value[s] = newValue], st.subs[s])

setter(st, s, nextValue) ==
    LET newValue == IF nextValue.fn # ""
                    THEN Apply(nextValue.fn, st.value[s])
                    ELSE nextValue.v
    IN  IF st.value[s] # newValue
        THEN scheduleAll([st EXCEPT !.value[s] = newValue,
                                    !.owed = @ \cup Range(st.subs[s])],
                         st.subs[s])
        ELSE st

\* ------------------------------------------------------------------ effects
\* effect.cleanups.forEach(cleanup => cleanup()): every closure is called once more
callCleanups(st, e) ==
    IF st.cleanups[e] = <<>>
    THEN st
    ELSE [st EXCEPT !.calls[e] = @ + 1,
                    !.cleanupCalls[e] = Max(@, st.calls[e] + 1)]

\* effect.deps.forEach(signal => signal.subs.delete(effect))
unsubscribe(st, e) ==
    [st EXCEPT !.subs = [s \in Sigs |-> IF s \in st.deps[e]
                                        THEN SetDelete(st.subs[s], e)
                                        ELSE st.subs[s]]]


\* effect.cleanups.forEach(cleanup => cleanup()); effect.cleanups = []
runCleanups(st, e) == [callCleanups(st, e) EXCEPT !.cleanups[e] = <<>>]

\* A run that empties effect.deps without leaving the subscriber sets.
clearDeps_only(st, e) == [st EXCEPT !.deps[e] = {}]

\* A run that keeps the dependencies of the run before.
clearDeps_kept(st, e) == st

\* effect.deps.forEach(signal => signal.subs.delete(effect)); effect.deps.clear()
clearDeps(st, e) == [unsubscribe(st, e) EXCEPT !.deps[e] = {}]

\* const cleanup = fn(); if (cleanup && typeof cleanup === "function") push it
callBody(st, e) ==
    LET s1 == [st EXCEPT !.self = e,
                         !.quiet = FALSE,
                         !.lexReads[e] = {},
                         !.peeked[e] = {},
                         !.prevReads[e] = st.reads[e],
                         !.reads[e] = {},
                         !.ran[e] = @ + 1,
                         !.owed = @ \ {e}]
        s2 == ExecProg(s1, Bodies[s1.body[e]].prog)
        s3 == IF ~s2.thrown /\ ~s2.over /\ Bodies[s2.body[e]].ret
              THEN [s2 EXCEPT !.cleanups[e] = Append(@, "cleanup"), !.calls[e] = 0]
              ELSE s2
    IN  [s3 EXCEPT !.self = st.self, !.quiet = st.quiet]

\* A run that catches what the body throws.
run_catch(st, e) ==
    LET s1 == clearDeps(runCleanups(st, e), e)
        prevEffect == s1.currentEffect
        s2 == callBody([s1 EXCEPT !.currentEffect = e], e)
    IN  [s2 EXCEPT !.currentEffect = prevEffect, !.thrown = FALSE]

\* A run that clears the tracking context on exit instead of restoring it.
run_flat(st, e) ==
    LET s1 == clearDeps(runCleanups(st, e), e)
        s2 == callBody([s1 EXCEPT !.currentEffect = e], e)
    IN  [s2 EXCEPT !.currentEffect = NoEffect]

\* A run that restores the tracking context on normal exit only (no finally).
run_leaky(st, e) ==
    LET s1 == clearDeps(runCleanups(st, e), e)
        prevEffect == s1.currentEffect
        s2 == callBody([s1 EXCEPT !.currentEffect = e], e)
    IN  IF s2.thrown THEN s2 ELSE [s2 EXCEPT !.currentEffect = prevEffect]

\* prevEffect = currentEffect; currentEffect = effect; try { ... } finally { restore }
run(st, e) ==
    LET s1 == clearDeps(runCleanups(st, e), e)
        prevEffect == s1.currentEffect
        s2 == callBody([s1 EXCEPT !.currentEffect = e], e)
    IN  [s2 EXCEPT !.currentEffect = prevEffect]

\* An effect() that leaves the first run to the scheduler.
effect_deferred(st, fn, keep) ==
    IF NumEffects(st) >= MaxEffects
    THEN [st EXCEPT !.over = TRUE]
    ELSE LET e == NumEffects(st) + 1
             s1 == [st EXCEPT !.body[e] = fn, !.deps[e] = {}, !.cleanups[e] = <<>>]
             s2 == schedule(s1, e)
         IN  IF keep THEN [s2 EXCEPT !.handles = @ \cup {e}] ELSE s2

\* effect(fn): the object, its first run, and the disposer handed to the caller
effect(st, fn, keep) ==
    IF NumEffects(st) >= MaxEffects
    THEN [st EXCEPT !.over = TRUE]
    ELSE LET e == NumEffects(st) + 1
             s1 == [st EXCEPT !.body[e] = fn, !.deps[e] = {}, !.cleanups[e] = <<>>]
             s2 == run(s1, e)
         IN  IF ~s2.thrown /\ keep
             THEN [s2 EXCEPT !.handles = @ \cup {e}]
             ELSE s2

\* A disposer that unsubscribes every effect there is.
RECURSIVE unsubscribeAll(_, _)
unsubscribeAll(st, n) == IF n = 0 THEN st ELSE unsubscribeAll(unsubscribe(st, n), n - 1)
disposer_all(st, e) ==
    [unsubscribeAll(callCleanups(st, e), MaxEffects) EXCEPT !.disposed = @ \cup {e}]

\* The function effect() returns.
disposer(st, e) ==
    [unsubscribe(callCleanups(st, e), e) EXCEPT !.disposed = @ \cup {e}]

\* ---------------------------------------------------------------- resource
\* The signals of a resource hold: data the number of the fetch whose result it is
\* (0: undefined), error likewise, loading a boolean; refetchTrigger is signal "a".
\* outcome[k] is the state of the promise of the k-th fetcher() call.
NoResource == [made |-> FALSE, outcome |-> <<>>, data |-> 0, error |-> 0, loading |-> FALSE]

\* signal(undefined), signal(true), signal(undefined), signal(0)
newResource == [made |-> TRUE, outcome |-> <<>>, data |-> 0, error |-> 0, loading |-> TRUE]

\* The effect's body after refetchTrigger(): the flags and a new fetch
startFetch(st) ==
    [st EXCEPT !.res.loading = TRUE,
               !.res.error = 0,
               !.res.outcome = Append(@, "pending")]

\* .then(result => { setData(result); setLoading(false); })
resolved(st, k) ==
    [st EXCEPT !.res.outcome[k] = "ok", !.res.data = k, !.res.loading = FALSE]

\* .catch(err => { setError(err); setLoading(false); })
rejected(st, k) ==
    [st EXCEPT !.res.outcome[k] = "err", !.res.error = k, !.res.loading = FALSE]

\* ---------------------------------------------------------- $keyedChildren
\* The keys of the array the getter returns, by the value of signal "a".
AllKeys == {"x", "y"}
Keys(v) ==
    CASE v = 0 -> <<"x">>
      [] v = 1 -> <<"x", "y">>
      [] v = 2 -> <<"y", "y">>
      [] OTHER -> <<>>

\* e: the binding's effect (0: no binding); map: the keys of the Map cleanups;
\* gone: ElementSet.cleanup() has been called.  History: seen, the array value the
\* latest run read; renders[k], the render calls for k since k was last absent
\* from the Map; kcalls[k], the calls received by the cleanup render returned last.
NoBinding ==
    [e |-> NoEffect, map |-> {}, gone |-> FALSE, seen |-> Undefined,
     renders |-> [k \in AllKeys |-> 0], kcalls |-> [k \in AllKeys |-> 0]]

\* keysToRemove.forEach(key => { fn && fn(); cleanups.delete(key); })
removeKeys(st, ks) ==
    [st EXCEPT !.keyed.map = @ \ ks,
               !.keyed.kcalls = [k \in AllKeys |-> IF k \in ks THEN @[k] + 1 ELSE @[k]],
               !.keyed.renders = [k \in AllKeys |-> IF k \in ks THEN 0 ELSE @[k]]]

\* keys.forEach(key => { if (cleanups.has(key)) return; cleanups.set(key, render(...)) })
RECURSIVE renderKeys(_, _)
renderKeys(st, keys) ==
    IF keys = <<>> THEN st
    ELSE LET k == Head(keys)
         IN  IF k \in st.keyed.map
             THEN renderKeys(st, Tail(keys))
             ELSE renderKeys([st EXCEPT !.keyed.map = @ \cup {k},
                                        !.keyed.renders[k] = @ + 1,
                                        !.keyed.kcalls[k] = 0],
                             Tail(keys))

\* The body of the effect, arr being what the getter returned
reconcile(st, arr) ==
    LET keys == Keys(arr)
        keysToRemove == st.keyed.map \ Range(keys)
    IN  renderKeys([removeKeys(st, keysToRemove) EXCEPT !.keyed.seen = arr], keys)

\* The closure pushed onto the ElementSet's cleanups, after cleanup() of the effect:
\* cleanups.forEach(fn => fn())
callKeyCleanups(st) ==
    [st EXCEPT !.keyed.gone = TRUE,
               !.keyed.kcalls = [k \in AllKeys |-> IF k \in st.keyed.map
                                                  THEN @[k] + 1 ELSE @[k]]]

\* ------------------------------------------------------------ ignore, scope
\* An ignore() that leaves the tracking context as it finds it.
ignore_tracked(st, p) ==
    [ExecProg([st EXCEPT !.quiet = TRUE], p) EXCEPT !.quiet = st.quiet]

\* prevEffect = currentEffect; currentEffect = null; try { fn() } finally { restore }
ignore(st, p) ==
    LET prevEffect == st.currentEffect
        s1 == ExecProg([st EXCEPT !.currentEffect = NoEffect, !.quiet = TRUE], p)
    IN  [s1 EXCEPT !.currentEffect = prevEffect, !.quiet = st.quiet]

\* The closure scope() pushes: currentEffect?.cleanups.forEach(cleanup => cleanup())
callClosure(st) ==
    IF st.currentEffect # NoEffect THEN callCleanups(st, st.currentEffect) ELSE st

\* dispose: cleanups.forEach(cleanup => cleanup()); cleanups.length = 0
RECURSIVE callAll(_, _)
callAll(st, cs) == IF cs = <<>> THEN st ELSE callAll(callClosure(st), Tail(cs))
dispose(st) ==
    [callAll(st, st.scopeCleanups) EXCEPT !.scopeCleanups = <<>>, !.scopeDisposed = TRUE]

\* A scope() that calls fn in the caller's tracking context.
scope_inherit(st, p) ==
    LET s1 == [st EXCEPT !.scopeCleanups = <<>>, !.hostDispose = TRUE, !.quiet = TRUE]
        s2 == ExecProg(s1, p)
        s3 == IF s2.thrown \/ s2.over THEN s2
              ELSE IF s2.currentEffect # NoEffect
              THEN [s2 EXCEPT !.scopeSaw = @ \cup {s2.currentEffect},
                              !.scopeCleanups = Append(@, "closure")]
              ELSE [s2 EXCEPT !.scopeSaw = @ \cup {NoEffect}]
    IN  [s3 EXCEPT !.quiet = st.quiet]

\* scope(fn): as ignore(), with a private list of cleanups and a dispose callback,
\* which fn hands to the host; after fn, if (currentEffect) cleanups.push(closure)
scope(st, p) ==
    LET prevEffect == st.currentEffect
        s1 == [st EXCEPT !.currentEffect = NoEffect, !.scopeCleanups = <<>>,
                         !.hostDispose = TRUE, !.quiet = TRUE]
        s2 == ExecProg(s1, p)
        s3 == IF s2.thrown \/ s2.over THEN s2
              ELSE IF s2.currentEffect # NoEffect
              THEN [s2 EXCEPT !.scopeSaw = @ \cup {s2.currentEffect},
                              !.scopeCleanups = Append(@, "closure")]
              ELSE [s2 EXCEPT !.scopeSaw = @ \cup {NoEffect}]
    IN  [s3 EXCEPT !.currentEffect = prevEffect, !.quiet = st.quiet]

ExecInstr(st, in) ==
    CASE in.op = "read" -> getter(st, in.s)
      [] in.op = "writeAcc" -> setter(st, in.s, Lit(Apply(in.f, st.acc)))
      [] in.op = "if" -> ExecProg(st, IF Test(in.f, st.acc) THEN in.p ELSE in.q)
      [] in.op = "log" -> [st EXCEPT !.logged[st.self] = st.acc]
      [] in.op = "throw" -> [st EXCEPT !.thrown = TRUE]
      [] in.op = "ignore" -> ignore(st, in.p)
      [] in.op = "scope" -> scope(st, in.p)
      [] in.op = "effect" -> effect(st, in.f, FALSE)
      [] in.op = "fetch" -> startFetch(st)
      [] in.op = "reconcile" -> reconcile(st, st.acc)
      [] in.op = "compare" ->
            IF st.value["c"] # Apply("pos", st.value["a"])
            THEN [st EXCEPT !.glitch = @ \cup {st.by}]
            ELSE st

ExecProg(st, p) ==
    IF p = <<>> \/ st.thrown \/ st.over
    THEN st
    ELSE ExecProg(ExecInstr(st, Head(p)), Tail(p))

\* computed(fn): a signal seeded with undefined and an internal effect
computed(st) ==
    effect([st EXCEPT !.value["c"] = Undefined, !.subs["c"] = <<>>], "derive", FALSE)

\* ------------------------------------------------------------------ actions
\* An operation: its name, the signal and the values of a write, the effect of the rest.
Called(op, s, old, new, e) == [op |-> op, sig |-> s, old |-> old, new |-> new, e |-> e]
Updated(s, old, f) == [Called("write", s, old, Apply(f, old), NoEffect) EXCEPT !.op = "update"]

Init ==
    /\ value = [s \in Sigs |-> IF s \in PlainSigs THEN 0 ELSE Undefined]
    /\ subs = [s \in Sigs |-> <<>>]
    /\ deps = [e \in Effects |-> {}]
    /\ cleanups = [e \in Effects |-> <<>>]
    /\ currentEffect = NoEffect
    /\ queue = <<>>
    /\ flushing = FALSE
    /\ microtask = FALSE
    /\ inFlush = FALSE
    /\ i = 0
    /\ body = [e \in Effects |-> "none"]
    /\ handles = {}
    /\ reads = [e \in Effects |-> {}]
    /\ prevReads = [e \in Effects |-> {}]
    /\ ran = [e \in Effects |-> 0]
    /\ owed = {}
    /\ calls = [e \in Effects |-> 0]
    /\ cleanupCalls = [e \in Effects |-> 0]
    /\ logged = [e \in Effects |-> Undefined]
    /\ disposed = {}
    /\ lastPass = <<>>
    /\ batch = <<>>
    /\ call = Called("init", "", 0, 0, NoEffect)
    /\ scopeCleanups = <<>>
    /\ hostDispose = FALSE
    /\ lexReads = [e \in Effects |-> {}]
    /\ peeked = [e \in Effects |-> {}]
    /\ scopeSaw = {}
    /\ scopeDisposed = FALSE
    /\ hits = {}
    /\ glitch = {}
    /\ res = NoResource
    /\ keyed = NoBinding

\* What a specification observes: obs names the history variables it keeps (the
\* others stay as Init left them), bodies the functions the host passes to effect().
Observe(c, name, new, old) == IF name \in c.obs THEN new ELSE old

\* The heap an operation leaves behind becomes the state.
Commit(r, c) ==
    /\ ~r.over
    /\ value' = r.value
    /\ subs' = r.subs
    /\ deps' = r.deps
    /\ cleanups' = r.cleanups
    /\ currentEffect' = r.currentEffect
    /\ body' = r.body
    /\ handles' = r.handles
    /\ reads' = Observe(c, "reads", r.reads, reads)
    /\ prevReads' = Observe(c, "reads", r.prevReads, prevReads)
    /\ ran' = Observe(c, "ran", r.ran, ran)
    /\ owed' = Observe(c, "owed", r.owed, owed)
    /\ calls' = Observe(c, "calls", r.calls, calls)
    /\ cleanupCalls' = Observe(c, "calls", r.cleanupCalls, cleanupCalls)
    /\ logged' = Observe(c, "pass", r.logged, logged)
    /\ disposed' = Observe(c, "disposed", r.disposed, disposed)
    /\ scopeCleanups' = r.scopeCleanups
    /\ hostDispose' = r.hostDispose
    /\ res' = r.res
    /\ keyed' = r.keyed
    /\ lexReads' = Observe(c, "lex", r.lexReads, lexReads)
    /\ peeked' = Observe(c, "lex", r.peeked, peeked)
    /\ scopeSaw' = Observe(c, "scope", r.scopeSaw, scopeSaw)
    /\ scopeDisposed' = Observe(c, "scope", r.scopeDisposed, scopeDisposed)
    /\ hits' = Observe(c, "hits", r.hits, hits)
    /\ glitch' = Observe(c, "glitch", r.glitch, glitch)

\* An operation of the host program, which runs between microtasks.
HostCall(r, c, op) ==
    /\ ~inFlush
    /\ Commit(r, c)
    /\ call' = Observe(c, "call", op, call)
    /\ queue' = r.queue
    /\ flushing' = r.flushing
    /\ microtask' = r.microtask
    /\ UNCHANGED <<inFlush, i, lastPass, batch>>

\* setter(v) with a literal
Write(s, v, c) ==
    HostCall(setter(Heap, s, Lit(v)), c, Called("write", s, value[s], v, NoEffect))

\* setter(prev => f(prev)) with an updater
WriteUpdater(s, f, c) ==
    /\ Apply(f, value[s]) <= MaxVal
    /\ HostCall(setter(Heap, s, Fn(f)), c, Updated(s, value[s], f))

CreateEffect(fn, c) ==
    /\ NumEffects(Heap) < MaxHostEffects
    /\ fn \in UsesComputed => value["c"] # Undefined
    /\ HostCall(effect(Heap, fn, TRUE), c,
                Called("effect", "", 0, 0, NumEffects(Heap) + 1))

CreateComputed(c) ==
    /\ NumEffects(Heap) < MaxHostEffects
    /\ value["c"] = Undefined
    /\ HostCall(computed(Heap), c, Called("computed", "c", 0, 0, NumEffects(Heap) + 1))

Dispose(e, c) ==
    /\ e \in handles
    /\ calls[e] < MaxCleanupCalls
    /\ HostCall(disposer(Heap, e), c, Called("dispose", "", 0, 0, e))

\* scope(dispose => { effect(fn); keep(dispose) }) called by the host
Scoped(fn, c) ==
    /\ NumEffects(Heap) < MaxHostEffects
    /\ HostCall(scope(Heap, <<Mk(fn)>>), c,
                Called("scope", "", 0, 0, NumEffects(Heap) + 1))

\* The host calls the dispose callback scope() gave to fn.
ScopeDispose(c) ==
    /\ hostDispose
    /\ HostCall(dispose(Heap), c, Called("scopeDispose", "", 0, 0, NoEffect))

\* resource(fetcher): the four signals and the effect, whose first run fetches
CreateResource(c) ==
    /\ ~res.made
    /\ NumEffects(Heap) = 0
    /\ HostCall(effect([Heap EXCEPT !.res = newResource], "fetch", FALSE), c,
                Called("resource", "", 0, 0, 1))

\* refetch: setRefetchTrigger(prev => prev + 1)
Refetch(c) ==
    /\ res.made
    /\ WriteUpdater("a", "inc", c)

\* The promise of the k-th fetch is fulfilled, or rejected: its callback runs.
Resolve(k, c) ==
    /\ k \in 1..Len(res.outcome)
    /\ res.outcome[k] = "pending"
    /\ HostCall(resolved(Heap, k), c, Called("resolve", "", 0, 0, NoEffect))

Reject(k, c) ==
    /\ k \in 1..Len(res.outcome)
    /\ res.outcome[k] = "pending"
    /\ HostCall(rejected(Heap, k), c, Called("reject", "", 0, 0, NoEffect))

\* $keyedChildren(getter, key, render) on a set of one element
KeyedChildren(c) ==
    /\ keyed.e = NoEffect
    /\ NumEffects(Heap) < MaxHostEffects
    /\ HostCall(effect([Heap EXCEPT !.keyed.e = NumEffects(Heap) + 1], "keyed", FALSE), c,
                Called("keyedChildren", "", 0, 0, NumEffects(Heap) + 1))

\* ElementSet.cleanup(): the effect's disposer, then the cleanups of the Map
ElementCleanup(c) ==
    /\ keyed.e # NoEffect
    /\ ~keyed.gone
    /\ HostCall(callKeyCleanups(disposer(Heap, keyed.e)), c,
                Called("cleanup", "", 0, 0, keyed.e))

\* One iteration of the loop of flush(), with the loop's exit when it is the last:
\*   for (let i = 0; i < queue.length; i++) queue[i]();  queue.length = 0; flushing = false
FlushJob(c) ==
    /\ microtask \/ inFlush
    /\ i < Len(queue)
    /\ LET job == queue[i + 1]
           r == run([Heap EXCEPT !.microtask = FALSE, !.by = "flush"], job)
       IN  /\ Commit(r, c)
           /\ microtask' = FALSE
           /\ call' = Observe(c, "call",
                              Called("flush", "", Observe(c, "derived", value["c"], 0),
                                     Observe(c, "derived", r.value["c"], 0), job),
                              call)
           /\ lastPass' = Observe(c, "pass", IF inFlush THEN Append(lastPass, job) ELSE <<job>>, lastPass)
           /\ batch' = Observe(c, "pass", IF inFlush THEN batch ELSE queue, batch)
           /\ IF r.thrown
              THEN \* the exception leaves flush(): the two statements after the loop are skipped
                   /\ queue' = r.queue
                   /\ flushing' = r.flushing
                   /\ inFlush' = FALSE
                   /\ i' = 0
              ELSE IF i + 1 < Len(r.queue)
              THEN /\ queue' = r.queue
                   /\ flushing' = r.flushing
                   /\ inFlush' = TRUE
                   /\ i' = i + 1
              ELSE /\ queue' = <<>>
                   /\ flushing' = FALSE
                   /\ inFlush' = FALSE
                   /\ i' = 0

NextOf(c) ==
    \/ \E s \in PlainSigs, v \in 0..MaxVal : Write(s, v, c)
    \/ \E s \in PlainSigs, f \in {"inc", "id"} : WriteUpdater(s, f, c)
    \/ \E fn \in c.bodies : CreateEffect(fn, c)
    \/ CreateComputed(c)
    \/ \E e \in Effects : Dispose(e, c)
    \/ FlushJob(c)

\* The engine with the histories of notification and disposal.
Engine == [obs |-> {"owed", "disposed"}, bodies |-> UserBodies]
Next == NextOf(Engine)
Spec == Init /\ [][Next]_vars

\* The engine with the history of each run's reads and of body executions.
Reads == [obs |-> {"reads", "ran"}, bodies |-> UserBodies]
NextReads == NextOf(Reads)
SpecReads == Init /\ [][NextReads]_vars

\* The engine with the history of cleanup calls.
Cleanup == [obs |-> {"calls", "disposed"}, bodies |-> UserBodies]
NextCleanup == NextOf(Cleanup)
SpecCleanup == Init /\ [][NextCleanup]_vars

\* The engine with the history of the flush pass.
Pass == [obs |-> {"pass"}, bodies |-> UserBodies]
NextPass == NextOf(Pass)
SpecPass == Init /\ [][NextPass]_vars

\* Passes of effects that write what they or others read, with the microtask queue
\* of the host running flush() when it is due and the loop taking its next iteration.
Bounded == [obs |-> {"pass"}, bodies |-> {"selfInc", "writer"}]
NextBounded == NextOf(Bounded)
\* flush() has been requested or is in its loop, with an iteration to take.
FlushDue == (microtask \/ inFlush) /\ i < Len(queue)
\* Weak fairness of FlushJob, which is enabled exactly when FlushDue holds (these
\* bodies build no effects): WF_vars(FlushJob(Bounded)) with ENABLED written out.
FairFlush == ([]<>~FlushDue) \/ ([]<><<FlushJob(Bounded)>>_vars)
SpecBounded == Init /\ [][NextBounded]_vars /\ FairFlush

\* The engine with the latest operation and the body executions it made.
Calls == [obs |-> {"call", "ran"}, bodies |-> UserBodies]
NextCalls == NextOf(Calls)
SpecCalls == Init /\ [][NextCalls]_vars

\* A computed value with its readers: a flush job's record holds the computed's
\* value before and after the job.
Derived == [obs |-> {"call", "derived"}, bodies |-> {"logC", "selfInc", "cond"}]
NextDerived == NextOf(Derived)
SpecDerived == Init /\ [][NextDerived]_vars

\* Bodies that call ignore(), scope() and effect(), with the history of what each
\* body read inside and outside ignore/scope.
Context == [obs |-> {"lex", "disposed"},
            bodies |-> {"untrack", "scoped", "outer", "outer2", "inner"}]
NextContext == NextOf(Context)
SpecContext == Init /\ [][NextContext]_vars

\* Effects built by the body of an effect, with the latest operation and the
\* history of disposal.  Every effect with the body "inner" was built by a body.
Nested == [obs |-> {"call", "disposed"}, bodies |-> {"outer", "logA"}]
NextNested == NextOf(Nested)
SpecNested == Init /\ [][NextNested]_vars

\* The host also calls scope(): c.scoped are the bodies of the effects it builds
\* inside scope(fn), c.bodies those it builds outside.
NextScopedOf(c) ==
    \/ NextOf(c)
    \/ \E fn \in c.scoped : Scoped(fn, c)
    \/ ScopeDispose(c)

Scopes == [obs |-> {"call", "scope"}, bodies |-> {"scoped"}, scoped |-> {"logA"}]
NextScopes == NextScopedOf(Scopes)
SpecScopes == Init /\ [][NextScopes]_vars

\* The engine with the history of the jobs schedule() found already queued.
Queue == [obs |-> {"hits"}, bodies |-> UserBodies]
NextQueue == NextOf(Queue)
SpecQueue == Init /\ [][NextQueue]_vars

\* A computed value and effects that read it together with its dependency.
Glitch == [obs |-> {"glitch"}, bodies |-> {"both"}]
NextGlitch == NextOf(Glitch)
SpecGlitch == Init /\ [][NextGlitch]_vars

\* A resource: its construction, refetch(), the flush and the settling of fetches.
Resource == [obs |-> {}, bodies |-> {}]
NextResource ==
    \/ CreateResource(Resource)
    \/ Refetch(Resource)
    \/ FlushJob(Resource)
    \/ \E k \in 1..(MaxVal + 1) : Resolve(k, Resource)
    \/ \E k \in 1..(MaxVal + 1) : Reject(k, Resource)
SpecResource == Init /\ [][NextResource]_vars

\* A keyed-children binding over the array in signal "a", next to other effects.
Keyed == [obs |-> {}, bodies |-> {"logA", "writer"}]
NextKeyed ==
    \/ NextOf(Keyed)
    \/ KeyedChildren(Keyed)
    \/ ElementCleanup(Keyed)
SpecKeyed == Init /\ [][NextKeyed]_vars

\* ------------------------------------------------------------- vocabulary
\* No flush is pending or executing.
Idle == ~microtask /\ ~inFlush

\* An exception left flush(): the flag is set and no flush will ever run.
Stuck == flushing /\ ~microtask /\ ~inFlush

Built(e) == body[e] # "none"

\* A step of the host program: only flush() takes the microtask off.
HostStep == ~inFlush /\ (microtask => microtask')

\* What read() returns to the host.
Read(s) == getter(Heap, s).acc
Subscribed(e, s) == e \in Range(subs[s])

TypeOK ==
    /\ \A s \in Sigs : value[s] \in Undefined..MaxVal
    /\ currentEffect = NoEffect

\* ------------------------------------------------------------------ claims

\* C1: whenever a write changes a signal's value, every effect subscribed to the
\* signal at that moment has run again by the time the scheduler is idle.
C1_NotifiedEffectsRun == Idle => owed = {}

\* C2: once an effect's disposer has been called, the effect is in no signal's
\* subscriber set (so that no later write can schedule it again).
C2_DisposedStaysUnsubscribed ==
    \A e \in disposed : \A s \in Sigs : ~Subscribed(e, s)

\* C3: the cleanup a run returned is called exactly once; no closure is ever
\* called a second time, by a second disposal or by a rerun after disposal.
C3_CleanupCalledOnce == \A e \in Effects : cleanupCalls[e] <= 1

\* C4: after any run of an effect its dependency set is exactly the set of signals
\* the run read while it was the tracking context, and the effect is subscribed to
\* no signal outside that set (a signal read only by an earlier run is dropped).
C4_DepsAreLatestReads ==
    \A e \in Effects :
        Built(e) =>
            /\ deps[e] = reads[e]
            /\ \A s \in Sigs \ reads[e] : ~Subscribed(e, s)

\* A rerun of the conditional body dropped "b", which the run before had read.
C4_Witness ==
    \E e \in Effects :
        /\ body[e] = "cond"
        /\ "b" \in prevReads[e]
        /\ reads[e] = {"a"}
        /\ deps[e] = {"a"}

\* No pass executes an effect twice, and a pass that ran to its end has executed
\* every effect that was in the queue when it began exactly once.
OncePerPass ==
    /\ \A e \in Effects : Count(lastPass, e) <= 1
    /\ (~inFlush /\ ~Stuck) => \A e \in Range(batch) : Count(lastPass, e) = 1

\* A value-changing write of the host puts every subscriber of the signal into the
\* queue, once, and a flush is requested (unless an exception has left flush()).
WriteEnqueuesOnce ==
    \A s \in PlainSigs :
        (/\ \/ \E v \in 0..MaxVal : Write(s, v, Pass)
            \/ \E f \in {"inc", "id"} : WriteUpdater(s, f, Pass)
         /\ value'[s] # value[s] /\ ~Stuck /\ subs[s] # <<>>) =>
            /\ microtask'
            /\ \A e \in Range(subs[s]) : Count(queue', e) = 1

\* The run of a logging body in a pass logs the value stored when it executes.
RunSeesStoredValue ==
    (FlushJob(Pass) /\ body[queue[i + 1]] = "logA") =>
        logged'[queue[i + 1]] = value["a"]

\* C5: value-changing writes made before the flush, however many and to however
\* many signals, put each subscribed effect into the queue once and request a
\* flush; a pass that runs to its end has executed each effect of that batch
\* exactly once (no pass executes an effect twice), and the run sees the values
\* stored when it executes.  A pass cut short by a throwing job is C23's case.
C5_Batching ==
    /\ []OncePerPass
    /\ [][WriteEnqueuesOnce]_vars
    /\ [][RunSeesStoredValue]_vars

\* signal(0), an effect logging it, writes of 1: one pass, one run, which logged 1.
C5_Witness ==
    /\ Idle /\ ~Stuck
    /\ body[1] = "logA"
    /\ batch = <<1>>
    /\ lastPass = <<1>>
    /\ logged[1] = 1
    /\ value["a"] = 1

\* C6: a write whose candidate (the literal, or the updater applied to the current
\* value) is identical to the stored value changes nothing: not the value, the
\* queue, the flag, the flush request, nor any subscriber or dependency set.
C6_NoopWriteFrame ==
    [][(call'.op \in {"write", "update"} /\ call'.new = call'.old) =>
           UNCHANGED <<value, queue, flushing, microtask, subs, deps, inFlush, i>>]_vars

\* A no-op write to a signal with subscribers, made while no flush was requested.
C6_Witness ==
    /\ call.op \in {"write", "update"}
    /\ call.new = call.old
    /\ subs[call.sig] # <<>>
    /\ ~flushing
    /\ queue = <<>>

\* C7: right after write(v), read() returns v; right after write(f), read() returns
\* f(previous value); the value is stored by the write itself, before any flush.
C7_WriteThenRead ==
    [][\A s \in PlainSigs :
           (call'.op \in {"write", "update"} /\ call'.sig = s) =>
               /\ Read(s)' = call'.new
               /\ UNCHANGED <<inFlush, i>>]_vars

\* write(1) then write(n => n + 1): the signal reads 2 while the flush is pending.
C7_Witness ==
    /\ call.op = "update"
    /\ call.old = 1
    /\ call.new = 2
    /\ Read(call.sig) = 2
    /\ microtask
    /\ subs[call.sig] # <<>>

\* C8: a write executes no effect body; bodies execute only in a job of a flush
\* pass (the job's own body, and the first run of an effect the job builds) or in
\* the first run inside effect() and computed().
C8_WriteRunsNoBody ==
    [][\A e \in Effects :
           ran'[e] > 0 =>
               \/ call'.op = "flush" /\ (e = call'.e \/ ~Built(e))
               \/ call'.op \in {"effect", "computed"} /\ ~Built(e)]_vars

\* A write changed a value and queued the subscribers; no body has run.
C8_Witness ==
    /\ call.op \in {"write", "update"}
    /\ call.new # call.old
    /\ subs[call.sig] # <<>>
    /\ Range(subs[call.sig]) \subseteq Range(queue)
    /\ microtask
    /\ \A e \in Effects : ran[e] = 0

\* C9: effect(fn) executes fn exactly once before it returns, without the
\* scheduler; on return the effect is subscribed to every signal fn read.
C9_FirstRunSynchronous ==
    [][\A e \in Effects :
           (~Built(e) /\ Built(e)') =>
               /\ ran'[e] = 1
               /\ \A s \in reads'[e] : e \in Range(subs'[s])
               /\ HostStep => UNCHANGED <<inFlush, i>>]_vars

\* An effect just built: one execution, its reads subscribed, no run before it.
C9_Witness ==
    \E e \in Effects :
        /\ body[e] = "cond"
        /\ ran[e] = 1
        /\ prevReads[e] = {}
        /\ reads[e] = {"a", "b"}
        /\ Subscribed(e, "a") /\ Subscribed(e, "b")
        /\ queue = <<>>
        /\ ~flushing

\* C10: whenever the scheduler is idle (no flush pending or executing, the flag
\* down), a computed's value is its derivation applied to the current values of
\* the signals it reads.
C10_ComputedAtRest ==
    (Idle /\ ~flushing /\ value["c"] # Undefined) =>
        value["c"] = Apply("pos", value["a"])

\* C11: once computed() has returned, the computed's value changes only in the
\* flush job that executes its internal effect; a write of the host to a
\* dependency leaves it as it was, so a read before the flush returns the value
\* derived before.
C11_ComputedChangesInFlush ==
    [][value["c"] # Undefined =>
           /\ value'["c"] # value["c"] =>
                  call'.op = "flush" /\ body[call'.e] = "derive"
           /\ call'.op \in {"write", "update"} => Read("c")' = Read("c")]_vars

\* A write has changed the dependency and the computed still reads the old
\* derivation while its internal effect waits in the queue.
C11_Witness ==
    /\ call.op \in {"write", "update"}
    /\ call.sig = "a"
    /\ value["a"] = 1
    /\ Read("c") = 0
    /\ microtask
    /\ \E e \in Range(queue) : body[e] = "derive"

\* C12: when the flush job of a computed's internal effect derives the value the
\* computed already has, the job schedules nothing: no effect subscribed to the
\* computed enters the queue and no flush is requested.
C12_SameValueSchedulesNoOne ==
    [][(call'.op = "flush" /\ body[call'.e] = "derive" /\ value'["c"] = value["c"]) =>
           /\ Range(queue') \subseteq Range(queue)
           /\ ~microtask']_vars

\* a went from 1 to 2: the internal effect reran and derived 1 again, and the
\* effect that reads the computed is neither queued nor run.
C12_Witness ==
    /\ call.op = "flush"
    /\ body[call.e] = "derive"
    /\ call.old = 1 /\ call.new = 1
    /\ value["a"] = 2
    /\ Idle /\ ~flushing
    /\ \E e \in Effects : body[e] = "logC" /\ Subscribed(e, "c") /\ e \notin Range(queue)

\* C13: a signal an effect's body read only inside ignore(fn) or scope(fn) is not
\* among the effect's dependencies and does not have the effect as a subscriber;
\* a signal the body read outside them, also after ignore/scope returned, is a
\* dependency, and the effect is subscribed to it until it is disposed.
C13_UntrackedReads ==
    \A e \in Effects :
        Built(e) =>
            /\ \A s \in peeked[e] \ lexReads[e] : s \notin deps[e] /\ ~Subscribed(e, s)
            /\ \A s \in lexReads[e] :
                   s \in deps[e] /\ (e \notin disposed => Subscribed(e, s))

\* One effect read b inside ignore and one inside scope; each read a afterwards and
\* is subscribed to a alone.
C13_Witness ==
    \E e1, e2 \in Effects :
        /\ body[e1] = "untrack" /\ body[e2] = "scoped"
        /\ \A e \in {e1, e2} :
               /\ peeked[e] = {"b"}
               /\ lexReads[e] = {"a"}
               /\ deps[e] = {"a"}
               /\ Subscribed(e, "a") /\ ~Subscribed(e, "b")

\* C14: an effect that reads n and writes n + 1 while n is below the bound is rerun
\* within the pass until the bound is reached: whenever the scheduler is at rest
\* and such an effect is subscribed to the signal, the signal holds the bound.
C14_SelfTriggerReachesBound ==
    (Idle /\ ~flushing) =>
        \A e \in Effects :
            (body[e] = "selfInc" /\ Subscribed(e, "a")) => value["a"] = MaxVal

\* C15: the engine keeps working after a body has thrown: every write of the host
\* that changes the value of a signal with subscribers leaves a flush requested,
\* which is what runs the subscribers.
C15_WriteAlwaysRequestsFlush ==
    [][\A s \in PlainSigs :
           (/\ call'.op \in {"write", "update"}
            /\ call'.sig = s
            /\ call'.new # call'.old
            /\ subs[s] # <<>>) => microtask']_vars

\* C16: every effect run, ignore(fn) and scope(fn) leaves the tracking context as
\* it found it, on normal exit and when fn throws; so whenever no body is
\* executing (between the operations of the host and between the jobs of a
\* flush) the tracking context is none.
C16_ContextRestored == currentEffect = NoEffect

\* A run threw from inside ignore and a run threw from inside scope, one of them
\* as a job of a flush; the tracking context is none.
C16_Witness ==
    /\ Stuck
    /\ currentEffect = NoEffect
    /\ \E e1, e2 \in Effects :
           /\ body[e1] = "untrack" /\ body[e2] = "scoped"
           /\ \A e \in {e1, e2} : peeked[e] = {"b"} /\ lexReads[e] = {}

\* C17: nested runs behave like a stack: the dependencies of every effect are
\* exactly the signals its own body read (outside ignore/scope), whether the
\* effect was built by the host or by the body of another effect; what the body of
\* an inner effect read is registered on the inner effect alone, and what the
\* outer body read after effect() returned is registered on the outer effect.
C17_NestedRunsStack ==
    \A e \in Effects :
        Built(e) =>
            /\ deps[e] = lexReads[e]
            /\ \A s \in Sigs \ lexReads[e] : ~Subscribed(e, s)
            /\ e \notin disposed => \A s \in lexReads[e] : Subscribed(e, s)

\* Depth two: effect 1 built effect 2, which built effect 3, and then read b;
\* effect 2 read a after building effect 3, which read b.
C17_Witness ==
    /\ body = <<"outer2", "outer", "inner">>
    /\ deps = <<{"b"}, {"a"}, {"b"}>>
    /\ subs["a"] = <<2>>
    /\ subs["b"] = <<3, 1>>

\* C18: an effect built by the body of another effect is not owned by it: the
\* disposer of an effect leaves every other effect subscribed where it was, and a
\* later write that changes a signal still puts every subscriber, the inner
\* effect included, into the queue for the flush to run.
C18_InnerOutlivesOuter ==
    [][/\ call'.op = "dispose" =>
              \A e \in Effects \ {call'.e} :
                  \A s \in Sigs : Subscribed(e, s) => Subscribed(e, s)'
       /\ \A s \in PlainSigs :
              (/\ call'.op \in {"write", "update"} /\ call'.sig = s
               /\ call'.new # call'.old /\ ~Stuck) =>
                  \A e \in Range(subs[s]) : e \in Range(queue') /\ flushing']_vars

\* The outer effect has been disposed; a write to b was made and the flush has
\* just rerun the inner effect, which is subscribed to b.
C18_Witness ==
    /\ body[1] = "outer" /\ body[2] = "inner"
    /\ 1 \in disposed
    /\ \A s \in Sigs : ~Subscribed(1, s)
    /\ call.op = "flush" /\ call.e = 2
    /\ Subscribed(2, "b")
    /\ value["b"] > 0

\* C19: the tracking context is none whenever scope() checks it after fn has
\* returned, so the private cleanup list of scope() stays empty; calling dispose
\* changes nothing in the engine, and after it a write that changes a signal still
\* queues the subscribers, the effects built inside scope(fn) among them.
C19_ScopeDisposeInert ==
    /\ [](scopeSaw \subseteq {NoEffect} /\ scopeCleanups = <<>>)
    /\ [][call'.op = "scopeDispose" =>
              UNCHANGED <<value, subs, deps, cleanups, queue, flushing, microtask,
                          currentEffect>>]_vars
    /\ [][\A s \in PlainSigs :
              (/\ scopeDisposed /\ call'.op \in {"write", "update"} /\ call'.sig = s
               /\ call'.new # call'.old /\ ~Stuck) =>
                  \A e \in Range(subs[s]) : e \in Range(queue') /\ flushing']_vars

\* dispose has been called; the write made after it has queued the effect that was
\* built inside scope(fn); scope() has checked the context and found none.
C19_Witness ==
    /\ scopeDisposed
    /\ scopeSaw = {NoEffect}
    /\ call.op \in {"write", "update"} /\ call.sig = "a" /\ call.new # call.old
    /\ microtask
    /\ \E e \in Range(queue) : body[e] = "logA" /\ Subscribed(e, "a")

\* p is an initial part of q.
IsPrefix(p, q) == Len(p) <= Len(q) /\ SubSeq(q, 1, Len(p)) = p

\* C20: while a pass executes, the jobs it has executed are the front of the
\* queue, in the queue's order, the jobs queued before the pass began come first,
\* and no flush is requested; a pass that runs to its end has executed the whole
\* queue, the jobs appended during the pass included, in the order of appending.
\* A pass cut short by a throwing job is C23's case.
C20_FifoOrder ==
    /\ [](inFlush => /\ lastPass = SubSeq(queue, 1, i)
                     /\ IsPrefix(batch, queue)
                     /\ ~microtask)
    /\ [][(FlushJob(Pass) /\ ~inFlush' /\ ~flushing') =>
              /\ lastPass' = queue
              /\ IsPrefix(batch', lastPass')
              /\ ~microtask']_vars

\* A write to b queued the effect that copies b to a; the pass ran it, its write
\* appended the effect logging a, and the same pass ran that one next.
C20_Witness ==
    /\ Idle /\ ~flushing
    /\ body[1] = "writer" /\ body[2] = "logA"
    /\ batch = <<1>>
    /\ lastPass = <<1, 2>>
    /\ logged[2] = value["b"]

\* C21: the queue holds each run procedure at most once; a schedule(job) that
\* finds the job in the queue leaves the job where it is, and a write of the host
\* all of whose subscribers are queued already leaves the queue as it is.
C21_QueueDeduplicated ==
    /\ [](\A e \in Effects : Count(queue, e) <= 1)
    /\ [][\A e \in hits' : e \in Range(queue) /\ (queue' # <<>> => Count(queue', e) = 1)]_vars
    /\ [][\A s \in PlainSigs :
              (/\ \E v \in 0..MaxVal : Write(s, v, Queue)
               /\ Range(subs[s]) \subseteq Range(queue)) => queue' = queue]_vars

\* A write of the host found a subscriber queued already, next to another job; a
\* flush is pending.
C21_Witness ==
    /\ hits # {}
    /\ microtask
    /\ Len(queue) = 2
    /\ queue[1] # queue[2]

\* C22: whenever no flush is pending or executing, the queue is empty and the
\* flushing flag is down (every pass ends with the queue cleared and the flag
\* reset, so that the next schedule() requests a flush).
C22_QueueEmptyAtRest == Idle => (queue = <<>> /\ ~flushing)

\* C23: a job that throws ends the pass: the exception leaves flush() (the queue
\* and the flag stay as they were, the statements after the loop being skipped),
\* the pass has executed the queue up to the throwing job and no further, and no
\* job after it is executed later on.
C23_ThrowAbortsPass ==
    /\ [][(FlushJob(Pass) /\ body[queue[i + 1]] = "thrower" /\ value["b"] > 0) =>
              /\ ~inFlush' /\ Stuck'
              /\ queue' = queue
              /\ lastPass' = SubSeq(queue, 1, i + 1)]_vars
    /\ [][Stuck => lastPass' = lastPass]_vars

\* The first of two queued jobs threw: the pass executed it alone.
C23_Witness ==
    /\ Stuck
    /\ Len(queue) = 2
    /\ body[queue[1]] = "thrower"
    /\ value["b"] > 0
    /\ lastPass = <<queue[1]>>

\* C24: whenever an effect is in a signal's subscriber set, the signal is in the
\* effect's dependency set (so a rerun or a disposal, which walk the dependency
\* set, take the effect out of every subscriber set that holds it).
C24_SubsWithinDeps ==
    \A s \in Sigs : \A e \in Effects : Subscribed(e, s) => s \in deps[e]

\* One effect was disposed (its dependency set kept, its subscription gone) and one
\* was rerun by a flush and threw before it read a again (both sets emptied).
C24_Witness ==
    \E e1, e2 \in Effects :
        /\ e1 \in disposed /\ deps[e1] = {"a"} /\ ~Subscribed(e1, "a")
        /\ body[e2] = "untrack" /\ Stuck
        /\ peeked[e2] = {"b"} /\ lexReads[e2] = {}
        /\ deps[e2] = {} /\ ~Subscribed(e2, "a")

\* C25: with bodies that terminate and build no effects, a pass executes each
\* effect's run at most once, so it makes at most as many job executions as there
\* are effects (the queue is never longer than that), and every pass that has
\* begun comes to its end, also when an effect writes the signal it reads.
C25_BoundedFlush ==
    /\ [](/\ \A e \in Effects : Count(lastPass, e) <= 1
          /\ Len(lastPass) <= NumEffects(Heap)
          /\ Len(queue) <= NumEffects(Heap))
    /\ (inFlush ~> ~inFlush)
    /\ (microtask ~> ~microtask)

\* The pass ran the self-writing effect once: it wrote 1 to the signal it reads
\* and the pass ended there.
C25_Witness ==
    /\ Idle /\ ~flushing
    /\ \E e \in Effects :
           /\ body[e] = "selfInc" /\ Subscribed(e, "a")
           /\ lastPass = <<e>>
    /\ value["a"] = 1

\* C26: an effect that reads a computed and the signal the computed is derived
\* from is never executed by a flush while the computed's value is not the
\* derivation of the signal's current value.
C26_NoGlitchInFlush == "flush" \notin glitch

\* The fetches a resource has started and those not settled yet.
Started == Len(res.outcome)
Outstanding == {k \in 1..Started : res.outcome[k] = "pending"}

\* C27: once every fetch a resource started has settled, data() holds the result
\* of the fetch started last (when that fetch was fulfilled).
C27_LatestFetchWins ==
    (Started > 0 /\ Outstanding = {} /\ res.outcome[Started] = "ok") =>
        res.data = Started

\* C28: loading() is true from construction on and as long as a fetch the
\* resource started has not settled.
C28_LoadingWhileOutstanding ==
    res.made => (Outstanding # {} => res.loading)

\* C29: after every run of the binding's effect the keys that hold a cleanup are
\* the distinct keys of the array the run read; a key present has been rendered
\* once since it appeared, and no cleanup render returned is called twice.
C29_KeyedReconciled ==
    keyed.e # NoEffect =>
        /\ keyed.map = Range(Keys(keyed.seen))
        /\ \A k \in AllKeys :
               /\ keyed.renders[k] = IF k \in keyed.map THEN 1 ELSE 0
               /\ keyed.kcalls[k] <= 1
====
